---- MODULE Spec2Model ----
(***************************************************************************)
(* Model of the scon SSH wizard (src/__main__.py).                         *)
(*                                                                         *)
(* Text is modelled at character level: a Python str is a sequence of      *)
(* one-character strings, so that the regular expression, the serializer,  *)
(* str.strip, str.split, str.startswith and int() are computed the way the *)
(* code computes them.                                                      *)
(***************************************************************************)
EXTENDS Integers, Sequences, FiniteSets, TLC

VARIABLES
  file,      \* content of CONFIG_FILE: a sequence of characters, or Absent
  \* the dispatch loop (__main__)
  state,     \* "Running" or "Terminated"
  cause,     \* why the loop ended: "none", "exit", "eof" or the exception
  event,     \* what the last iteration got: "none", "load", "line",
             \* "interrupt", "eof"
  text,      \* the last input line
  branch,    \* the branch of the if/elif chain the last line took
  invoked,   \* what that branch called
  unknown,   \* number of "Unknown Command" messages printed so far
  iter,      \* number of prompts shown so far
  \* add_host
  last,      \* the last wizard run: its locals and how it ended
  runs,      \* number of wizard runs so far
  \* file_to_dataclass / dataclass_to_file on their own
  data,      \* the record sequence handed to dataclass_to_file
  blocks,    \* the blocks of a hand-edited file
  result,    \* what file_to_dataclass returned
  phase      \* "idle", "input", "written", "parsed"

dispVars == <<state, cause, event, text, branch, invoked, unknown, iter>>
wizVars == <<last, runs>>
parseVars == <<data, blocks, result, phase>>
vars == <<file, dispVars, wizVars, parseVars>>

\* ------------------------------------------------------------------------
\* Bounds
\* ------------------------------------------------------------------------
MaxLen == 2       \* longest record / block sequence drawn as an input
MaxIter == 2      \* prompts the dispatch loop shows
MaxRuns == 2      \* wizard runs

\* ------------------------------------------------------------------------
\* Characters and literals
\* ------------------------------------------------------------------------
Whitespace == {" ", "\t", "\n"}
Digit == {"0", "1", "2", "3", "4", "5", "6", "7", "8", "9"}
DigitChar == <<"0", "1", "2", "3", "4", "5", "6", "7", "8", "9">>

KwHost == <<"H", "o", "s", "t">>
KwHostname == <<"H", "o", "s", "t", "n", "a", "m", "e">>
KwUser == <<"U", "s", "e", "r">>
KwPort == <<"P", "o", "r", "t">>
KwIdentityFile == <<"I", "d", "e", "n", "t", "i", "t", "y", "F", "i", "l", "e">>

Absent == <<"<no such file>">>
NoMatch == [ok |-> FALSE]

\* ------------------------------------------------------------------------
\* int() and str() of integers
\* ------------------------------------------------------------------------
DigitVal(c) == CHOOSE d \in 0..9 : DigitChar[d + 1] = c

RECURSIVE DigitsVal(_)
DigitsVal(s) ==
  IF Len(s) = 0 THEN 0
  ELSE 10 * DigitsVal(SubSeq(s, 1, Len(s) - 1)) + DigitVal(s[Len(s)])

AllDigits(s) == Len(s) > 0 /\ \A k \in 1..Len(s) : s[k] \in Digit

\* int(s): an optional sign followed by decimal digits, ValueError otherwise
PyInt(s) ==
  IF AllDigits(s) THEN [ok |-> TRUE, val |-> DigitsVal(s)]
  ELSE IF Len(s) > 1 /\ s[1] = "-" /\ AllDigits(Tail(s))
       THEN [ok |-> TRUE, val |-> 0 - DigitsVal(Tail(s))]
  ELSE IF Len(s) > 1 /\ s[1] = "+" /\ AllDigits(Tail(s))
       THEN [ok |-> TRUE, val |-> DigitsVal(Tail(s))]
  ELSE [ok |-> FALSE]

RECURSIVE NatStr(_)
NatStr(n) ==
  IF n < 10 THEN <<DigitChar[n + 1]>>
  ELSE NatStr(n \div 10) \o <<DigitChar[(n % 10) + 1]>>

\* f'{config.port}'
IntStr(n) == IF n < 0 THEN <<"-">> \o NatStr(0 - n) ELSE NatStr(n)

\* ------------------------------------------------------------------------
\* SSH_KEY_FILE_REGEX
\*   Host +(?P<ID>.+)\n\tHostname +(?P<hostname>\S+)\n\tUser +(?P<user>\S+)
\*   \n\tPort +(?P<port>\d+)\n\tIdentityFile +(?P<key_file>\S+)\n?
\* ------------------------------------------------------------------------
InClass(c, cls) ==
  CASE cls = " " -> c = " "
    [] cls = "." -> c # "\n"
    [] cls = "S" -> c \notin Whitespace
    [] cls = "d" -> c \in Digit

\* position after the longest run of cls characters starting at i
RECURSIVE Greedy(_, _, _)
Greedy(s, i, cls) ==
  IF i <= Len(s) /\ InClass(s[i], cls) THEN Greedy(s, i + 1, cls) ELSE i

\* position after the literal lit at i, 0 when it is not there
Literal(s, i, lit) ==
  IF i > 0 /\ i + Len(lit) - 1 <= Len(s) /\ SubSeq(s, i, i + Len(lit) - 1) = lit
  THEN i + Len(lit) ELSE 0

\* The pattern language the regular expression uses: a literal, a greedy
\* one-or-more of a character class (capturing when group is named), and an
\* optional literal.
Lit(t) == [kind |-> "lit", text |-> t, cls |-> "", group |-> ""]
Plus(c, g) == [kind |-> "plus", text |-> <<>>, cls |-> c, group |-> g]
Opt(t) == [kind |-> "opt", text |-> t, cls |-> "", group |-> ""]

FieldAtoms(kw, c, g) == <<Lit(<<"\n", "\t">> \o kw), Plus(" ", ""), Plus(c, g)>>

\* a port group written \S+ instead of \d+
SSH_KEY_FILE_REGEX_AnyPort ==
  <<Lit(KwHost), Plus(" ", ""), Plus(".", "ID")>>
  \o FieldAtoms(KwHostname, "S", "hostname")
  \o FieldAtoms(KwUser, "S", "user")
  \o FieldAtoms(KwPort, "S", "port")
  \o FieldAtoms(KwIdentityFile, "S", "key_file")
  \o <<Opt(<<"\n">>)>>

SSH_KEY_FILE_REGEX ==
  <<Lit(KwHost), Plus(" ", ""), Plus(".", "ID")>>
  \o FieldAtoms(KwHostname, "S", "hostname")
  \o FieldAtoms(KwUser, "S", "user")
  \o FieldAtoms(KwPort, "d", "port")
  \o FieldAtoms(KwIdentityFile, "S", "key_file")
  \o <<Opt(<<"\n">>)>>

\* Backtracking match of the atoms re[k..] at position i of s: a greedy
\* quantifier takes the longest run and gives characters back one by one
\* until the rest of the pattern matches.
RECURSIVE Match(_, _, _, _)
Match(re, s, i, k) ==
  IF k > Len(re) THEN [ok |-> TRUE, end |-> i, groups |-> <<>>]
  ELSE IF re[k].kind = "lit"
  THEN IF Literal(s, i, re[k].text) = 0 THEN NoMatch
       ELSE Match(re, s, i + Len(re[k].text), k + 1)
  ELSE IF re[k].kind = "opt"
  THEN LET with == IF Literal(s, i, re[k].text) = 0 THEN NoMatch
                   ELSE Match(re, s, i + Len(re[k].text), k + 1)
       IN IF with.ok THEN with ELSE Match(re, s, i, k + 1)
  ELSE LET e == Greedy(s, i, re[k].cls)
           tries == {[to |-> j, m |-> Match(re, s, j, k + 1)] : j \in (i + 1)..e}
           good == {t \in tries : t.m.ok}
       IN IF good = {} THEN NoMatch
          ELSE LET best == CHOOSE t \in good : \A x \in good : x.to <= t.to
               IN IF re[k].group = "" THEN best.m
                  ELSE [best.m EXCEPT
                          !.groups = (re[k].group :> SubSeq(s, i, best.to - 1)) @@ @]

\* re.finditer(pattern, string): the leftmost match at or after pos, then the
\* search resumes where that match ended (a match is never empty).  The
\* pattern begins with a literal, so a match can only start at an occurrence
\* of that literal's first character.
RECURSIVE finditer(_, _, _)
finditer(re, s, pos) ==
  LET starts == {i \in pos..Len(s) : s[i] = re[1].text[1]}
      tries == {[at |-> i, m |-> Match(re, s, i, 1)] : i \in starts}
      good == {t \in tries : t.m.ok}
  IN IF good = {} THEN <<>>
     ELSE LET first == CHOOSE t \in good : \A x \in good : t.at <= x.at
          IN <<first.m.groups>> \o finditer(re, s, first.m.end)

\* ------------------------------------------------------------------------
\* file_to_dataclass / dataclass_to_file
\* ------------------------------------------------------------------------
SSHConfig(ID, hostname, user, port, key_file) ==
  [ID |-> ID, hostname |-> hostname, user |-> user, port |-> port,
   key_file |-> key_file]

\* int(match.group("port")) raises ValueError on text that is no number
file_to_dataclass(f) ==
  IF f = Absent THEN [raised |-> "FileNotFoundError", value |-> <<>>]
  ELSE LET ms == finditer(SSH_KEY_FILE_REGEX, f, 1)
           ports == [k \in 1..Len(ms) |-> PyInt(ms[k].port)]
       IN IF \E k \in 1..Len(ms) : ~ports[k].ok
          THEN [raised |-> "ValueError", value |-> <<>>]
          ELSE [raised |-> "none",
                value |-> [k \in 1..Len(ms) |->
                             SSHConfig(ms[k].ID, ms[k].hostname, ms[k].user,
                                       ports[k].val, ms[k].key_file)]]

\* the text of one block: sep after each keyword, indent before each field
\* line, term after the IdentityFile value
BlockText(config, sep, indent, term) ==
  KwHost \o sep \o config.ID \o <<"\n">> \o
  indent \o KwHostname \o sep \o config.hostname \o <<"\n">> \o
  indent \o KwUser \o sep \o config.user \o <<"\n">> \o
  indent \o KwPort \o sep \o IntStr(config.port) \o <<"\n">> \o
  indent \o KwIdentityFile \o sep \o config.key_file \o term

\* a writer that forgets the line ends after the key file
Block_NoNewline(config) == BlockText(config, <<" ">>, <<"\t">>, <<>>)

\* the text written for one config
Block(config) == BlockText(config, <<" ">>, <<"\t">>, <<"\n", "\n">>)

RECURSIVE Concat(_)
Concat(ss) == IF Len(ss) = 0 THEN <<>> ELSE Head(ss) \o Concat(Tail(ss))

\* open(file, "w") truncates; one block per config, in order
dataclass_to_file(recs) == Concat([k \in 1..Len(recs) |-> Block(recs[k])])

\* ------------------------------------------------------------------------
\* str methods
\* ------------------------------------------------------------------------
\* a substring test where startswith was meant
StartsWith_Contains(s, p) ==
  \E i \in 1..(Len(s) - Len(p) + 1) : SubSeq(s, i, i + Len(p) - 1) = p

\* a whole-line comparison where startswith was meant
StartsWith_Equal(s, p) == s = p

\* s.startswith(p)
StartsWith(s, p) == Len(s) >= Len(p) /\ SubSeq(s, 1, Len(p)) = p

\* s.split(c): cut at every c, empty pieces kept
RECURSIVE Split(_, _)
Split(s, c) ==
  IF \A k \in 1..Len(s) : s[k] # c THEN <<s>>
  ELSE LET i == CHOOSE k \in 1..Len(s) :
                  s[k] = c /\ \A j \in 1..(k - 1) : s[j] # c
       IN <<SubSeq(s, 1, i - 1)>> \o Split(SubSeq(s, i + 1, Len(s)), c)

\* s.split(c, 1): cut at the first c only
Split1(s, c) ==
  IF \A k \in 1..Len(s) : s[k] # c THEN <<s>>
  ELSE LET i == CHOOSE k \in 1..Len(s) :
                  s[k] = c /\ \A j \in 1..(k - 1) : s[j] # c
       IN <<SubSeq(s, 1, i - 1), SubSeq(s, i + 1, Len(s))>>

\* s.strip()
RECURSIVE Strip(_)
Strip(s) ==
  IF Len(s) = 0 THEN s
  ELSE IF s[1] \in Whitespace THEN Strip(Tail(s))
  ELSE IF s[Len(s)] \in Whitespace THEN Strip(SubSeq(s, 1, Len(s) - 1))
  ELSE s

\* s.lower(), for the capitals that occur in the inputs
LowerChar(c) ==
  CASE c = "A" -> "a" [] c = "B" -> "b" [] c = "N" -> "n" [] c = "X" -> "x"
    [] OTHER -> c
Lower(s) == [k \in 1..Len(s) |-> LowerChar(s[k])]

\* s.replace(a, b) for single characters
Replace(s, a, b) == [k \in 1..Len(s) |-> IF s[k] = a THEN b ELSE s[k]]

\* ------------------------------------------------------------------------
\* list_config, configure
\* ------------------------------------------------------------------------
\* list_config(): max() over the hosts raises on an empty list
list_config(f) ==
  LET r == file_to_dataclass(f)
  IN IF r.raised # "none" THEN r.raised
     ELSE IF Len(r.value) = 0 THEN "ValueError"
     ELSE "none"

WordShow == <<"s", "h", "o", "w">>
WordSet == <<"s", "e", "t">>

\* configure(cmd): cmd[0] raises on an empty list; every branch only prints
configure(cmd) ==
  IF Len(cmd) = 0 THEN "IndexError"
  ELSE "none"

\* ------------------------------------------------------------------------
\* The dispatch loop
\* ------------------------------------------------------------------------
CmdSsh == <<"s", "s", "h">>
CmdRemove == <<"r", "e", "m", "o", "v", "e">>
CmdAdd == <<"a", "d", "d">>
CmdList == <<"l", "i", "s", "t">>
CmdHelp == <<"h", "e", "l", "p">>
CmdExit == <<"e", "x", "i", "t">>
CmdConfigure == <<"c", "o", "n", "f", "i", "g", "u", "r", "e">>
CmdClear == <<"c", "l", "e", "a", "r">>

\* the if/elif chain on text.startswith(...)
Branch(t) ==
  IF StartsWith(t, CmdSsh) THEN "ssh"
  ELSE IF StartsWith(t, CmdRemove) THEN "remove"
  ELSE IF StartsWith(t, CmdAdd) THEN "add"
  ELSE IF StartsWith(t, CmdList) THEN "list"
  ELSE IF StartsWith(t, CmdHelp) THEN "help"
  ELSE IF StartsWith(t, CmdExit) THEN "exit"
  ELSE IF StartsWith(t, CmdConfigure) THEN "configure"
  ELSE IF StartsWith(t, CmdClear) THEN "clear"
  ELSE "unknown"

\* input lines
Lines ==
  {CmdSsh \o <<" ", "a">>,
   <<" ">> \o CmdSsh \o <<" ", "a">>,
   CmdSsh \o <<"x">>,
   CmdRemove \o <<" ", "a">>,
   CmdAdd,
   <<"\t">> \o CmdAdd,
   CmdList,
   CmdList \o <<" ", "a">>,
   CmdHelp,
   CmdHelp \o <<"m", "e">>,
   CmdExit,
   CmdConfigure \o <<" ">> \o WordShow,
   CmdConfigure \o <<" ">> \o WordSet \o <<" ", "A", " ", "B">>,
   CmdConfigure,
   CmdClear,
   <<"f", "o", "o">>,
   <<>>}

\* config files the loop may find
SomeHost == SSHConfig(<<"a">>, <<"a", ".", "x">>, <<"u">>, 22, <<"/", "k">>)
OtherHost == SSHConfig(<<"b">>, <<"b", ".", "x">>, <<"u">>, 22, <<"/", "k">>)
DispFiles ==
  {Absent, <<>>, dataclass_to_file(<<SomeHost>>),
   dataclass_to_file(<<SomeHost, OtherHost>>)}

NoRun == [outcome |-> "none"]

Init ==
  /\ file \in DispFiles
  /\ state = "Running"
  /\ cause = "none"
  /\ event = "none"
  /\ text = <<>>
  /\ branch = "none"
  /\ invoked = "none"
  /\ unknown = 0
  /\ iter = 0
  /\ last = NoRun
  /\ runs = 0
  /\ data = <<>>
  /\ blocks = <<>>
  /\ result = [raised |-> "none", value |-> <<>>]
  /\ phase = "idle"

\* the loop is at its top and may go round once more
AtTop == state = "Running" /\ iter < MaxIter

\* hosts = file_to_dataclass(CONFIG_FILE) at the top of the loop succeeds
Loaded == file_to_dataclass(file).raised = "none"

\* an iteration that ends in an uncaught exception
Crash(ev, t, b, inv, exc) ==
  /\ state' = "Terminated"
  /\ cause' = exc
  /\ event' = ev
  /\ text' = t
  /\ branch' = b
  /\ invoked' = inv
  /\ UNCHANGED <<file, unknown, wizVars, parseVars>>

\* an iteration that got the line t, took branch b, called inv and returned
\* to the top of the loop
Handled(t, b, inv) ==
  /\ state' = "Running"
  /\ cause' = "none"
  /\ event' = "line"
  /\ text' = t
  /\ branch' = b
  /\ invoked' = inv
  /\ UNCHANGED <<file, unknown, wizVars, parseVars>>

\* file_to_dataclass at the top of the loop raises: no prompt is shown
LoadFails ==
  /\ AtTop
  /\ ~Loaded
  /\ iter' = iter
  /\ Crash("load", text, "none", "none", file_to_dataclass(file).raised)

\* KeyboardInterrupt at the prompt: a hint is printed, continue
Interrupt ==
  /\ AtTop
  /\ Loaded
  /\ iter' = iter + 1
  /\ state' = "Running"
  /\ cause' = "none"
  /\ event' = "interrupt"
  /\ branch' = "none"
  /\ invoked' = "none"
  /\ UNCHANGED <<file, text, unknown, wizVars, parseVars>>

\* EOFError at the prompt: exit(-1)
EndOfInput ==
  /\ AtTop
  /\ Loaded
  /\ iter' = iter + 1
  /\ state' = "Terminated"
  /\ cause' = "eof"
  /\ event' = "eof"
  /\ branch' = "none"
  /\ invoked' = "none"
  /\ UNCHANGED <<file, text, unknown, wizVars, parseVars>>

Prompted(t, b) ==
  /\ AtTop
  /\ Loaded
  /\ t \in Lines
  /\ Branch(t) = b
  /\ iter' = iter + 1

\* subprocess.run(text.split(" ")): the process runs to its end, or is
\* interrupted (caught), or the program named by the first word does not
\* exist (FileNotFoundError, not caught); ssh itself is taken to be installed
OnSsh(t) ==
  /\ Prompted(t, "ssh")
  /\ \/ Handled(t, "ssh", "subprocess.run")
     \/ /\ Split(t, " ")[1] # CmdSsh
        /\ Crash("line", t, "ssh", "subprocess.run", "FileNotFoundError")

\* the remove branch is the Ellipsis
OnRemove(t) ==
  /\ Prompted(t, "remove")
  /\ Handled(t, "remove", "none")

\* the add branch is the Ellipsis
OnAdd(t) ==
  /\ Prompted(t, "add")
  /\ Handled(t, "add", "none")

OnList(t) ==
  /\ Prompted(t, "list")
  /\ IF list_config(file) = "none"
     THEN Handled(t, "list", "list_config")
     ELSE Crash("line", t, "list", "list_config", list_config(file))

OnHelp(t) ==
  /\ Prompted(t, "help")
  /\ Handled(t, "help", "print")

\* break
OnExit(t) ==
  /\ Prompted(t, "exit")
  /\ state' = "Terminated"
  /\ cause' = "exit"
  /\ event' = "line"
  /\ text' = t
  /\ branch' = "exit"
  /\ invoked' = "none"
  /\ UNCHANGED <<file, unknown, wizVars, parseVars>>

\* _, *cmd = text.split(" "); configure(cmd)
OnConfigure(t) ==
  /\ Prompted(t, "configure")
  /\ LET cmd == Tail(Split(t, " "))
     IN IF configure(cmd) = "none"
        THEN Handled(t, "configure", "configure")
        ELSE Crash("line", t, "configure", "configure", configure(cmd))

OnClear(t) ==
  /\ Prompted(t, "clear")
  /\ Handled(t, "clear", "clear")

\* the final else: one "Unknown Command" message
OnUnknown(t) ==
  /\ Prompted(t, "unknown")
  /\ state' = "Running"
  /\ cause' = "none"
  /\ event' = "line"
  /\ text' = t
  /\ branch' = "unknown"
  /\ invoked' = "none"
  /\ unknown' = unknown + 1
  /\ UNCHANGED <<file, wizVars, parseVars>>

Next ==
  \/ LoadFails
  \/ Interrupt
  \/ EndOfInput
  \/ \E t \in Lines :
       \/ OnSsh(t)
       \/ OnRemove(t)
       \/ OnAdd(t)
       \/ OnList(t)
       \/ OnHelp(t)
       \/ OnExit(t)
       \/ OnConfigure(t)
       \/ OnClear(t)
       \/ OnUnknown(t)

Spec == Init /\ [][Next]_vars

\* ------------------------------------------------------------------------
\* add_host
\* ------------------------------------------------------------------------
DEFAULT_USER == <<"a", "d", "m", "i", "n">>
HOME == <<"/", "r">>
SSH_KEY_DIR ==
  HOME \o <<"/", ".", "s", "s", "h", "/", "k", "e", "y", "s">>

NoRecord == [ID |-> "none"]

\* yes(): the prompt is repeated until the answer, stripped and lowered, is
\* one of y, yes, "" (True) or n, no (False); answer is that last answer
yes(answer) == Lower(Strip(answer)) \in {<<"y">>, <<"y", "e", "s">>, <<>>}

\* hosts = [h for h in hosts if h.hostname != hostname]
Kept(hosts, hostname) == SelectSeq(hosts, LAMBDA h : h.hostname # hostname)

\* a run that returns or raises before dataclass_to_file is reached
Ended(how, f, hostname, hosts, asked) ==
  [outcome |-> how, before |-> f, file |-> f, hostname |-> hostname,
   hosts |-> hosts, asked |-> asked, new |-> NoRecord, writes |-> 0]

\* dataclass_to_file(CONFIG_FILE, hosts + [new_config_data])
Persisted(f, hostname, hosts, kept, asked, new) ==
  [outcome |-> "done", before |-> f,
   file |-> dataclass_to_file(kept \o <<new>>), hostname |-> hostname,
   hosts |-> hosts, asked |-> asked, new |-> new, writes |-> 1]

\* new_config_data, from the answers given
NewConfig(in, hostname) ==
  SSHConfig(IF in.alias # <<>> THEN in.alias ELSE Split1(hostname, ".")[1],
            hostname,
            IF Strip(in.user) # <<>> THEN Strip(in.user) ELSE DEFAULT_USER,
            IF Strip(in.port) # <<>> THEN PyInt(Strip(in.port)).val ELSE 22,
            SSH_KEY_DIR \o <<"/">> \o Replace(hostname, ".", "_"))

\* a wizard that rewrites the file as soon as the overwrite is confirmed
FromExisting_EagerWrite(f, in, hostname, hosts) ==
  LET exists == \E k \in 1..Len(hosts) : hosts[k].hostname = hostname
  IN IF exists /\ ~yes(in.overwrite)
     THEN Ended("aborted", f, hostname, hosts, TRUE)
     ELSE IF in.keygen = "fail"
     THEN [Ended("FileNotFoundError", f, hostname, hosts, exists) EXCEPT
             !.file = dataclass_to_file(Kept(hosts, hostname)), !.writes = 1]
     ELSE Persisted(f, hostname, hosts, Kept(hosts, hostname), exists,
                    NewConfig(in, hostname))

\* from "check for existing configuration" to the end: the overwrite
\* question, the key pair (ssh-keygen may leave no .pub file, and open()
\* then raises), and the write
FromExisting(f, in, hostname, hosts) ==
  LET exists == \E k \in 1..Len(hosts) : hosts[k].hostname = hostname
  IN IF exists /\ ~yes(in.overwrite)
     THEN Ended("aborted", f, hostname, hosts, TRUE)
     ELSE IF in.keygen = "fail"
     THEN Ended("FileNotFoundError", f, hostname, hosts, exists)
     ELSE Persisted(f, hostname, hosts,
                    IF exists THEN Kept(hosts, hostname) ELSE hosts, exists,
                    NewConfig(in, hostname))

\* add_host() run on the file f with the answers in; loaded is what
\* file_to_dataclass(CONFIG_FILE) returns when the run gets that far
add_host(f, loaded, in) ==
  LET hostname == Lower(Strip(in.hostname))
  IN IF Len(Split1(hostname, ".")) # 2
     THEN Ended("ValueError", f, hostname, <<>>, FALSE)
     ELSE IF in.ping = "down" /\ ~yes(in.anyway)
     THEN Ended("aborted", f, hostname, <<>>, FALSE)
     ELSE IF Strip(in.port) # <<>> /\ ~PyInt(Strip(in.port)).ok
     THEN Ended("ValueError", f, hostname, <<>>, FALSE)
     ELSE IF loaded.raised # "none"
     THEN Ended(loaded.raised, f, hostname, <<>>, FALSE)
     ELSE FromExisting(f, in, hostname, loaded.value)

\* answers the user may give, and what ping and ssh-keygen may do; the
\* answer to a prompt that the run never shows is left at its first value
NotAsked(in, fields) ==
  /\ "alias" \in fields => in.alias = <<>>
  /\ "ping" \in fields => in.ping = "up"
  /\ "anyway" \in fields => in.anyway = <<>>
  /\ "user" \in fields => in.user = <<>>
  /\ "port" \in fields => in.port = <<>>
  /\ "overwrite" \in fields => in.overwrite = <<"y">>
  /\ "keygen" \in fields => in.keygen = "ok"

WizardInputs ==
  {in \in [hostname : {<<"a", ".", "x">>, <<"a", ".", "y">>,
                       <<" ", "B", ".", "x">>, <<"a", "x">>},
           alias : {<<>>, <<"w">>},
           ping : {"up", "down"},
           anyway : {<<>>, <<"N">>},
           user : {<<>>, <<" ", "u">>},
           port : {<<>>, <<" ", "8">>, <<"-", "1">>, <<"x">>},
           overwrite : {<<"y">>, <<"n">>},
           keygen : {"ok", "fail"}] :
     /\ in.hostname = <<"a", "x">> =>
          NotAsked(in, {"alias", "ping", "anyway", "user", "port", "overwrite",
                        "keygen"})
     /\ in.ping = "up" => NotAsked(in, {"anyway"})
     /\ in.anyway = <<"N">> =>
          NotAsked(in, {"user", "port", "overwrite", "keygen"})
     /\ in.port = <<"x">> => NotAsked(in, {"overwrite", "keygen"})}

\* config files the wizard may start from: an empty one, and one the tool
\* wrote earlier
HostB ==
  SSHConfig(<<"b">>, <<"b", ".", "x">>, DEFAULT_USER, 22,
            SSH_KEY_DIR \o <<"/", "b", "_", "x">>)
HostC ==
  SSHConfig(<<"c">>, <<"c", ".", "x">>, DEFAULT_USER, 22,
            SSH_KEY_DIR \o <<"/", "c", "_", "x">>)
WizardFiles == {<<>>, dataclass_to_file(<<HostB, HostC>>)}

WizardInit ==
  /\ file \in WizardFiles
  /\ state = "Running"
  /\ cause = "none"
  /\ event = "none"
  /\ text = <<>>
  /\ branch = "none"
  /\ invoked = "none"
  /\ unknown = 0
  /\ iter = 0
  /\ last = NoRun
  /\ runs = 0
  /\ data = <<>>
  /\ blocks = <<>>
  /\ result = [raised |-> "none", value |-> <<>>]
  /\ phase = "idle"

\* one run of the wizard
AddHost ==
  /\ runs < MaxRuns
  /\ \E loaded \in {file_to_dataclass(file)}, in \in WizardInputs :
       /\ last' = add_host(file, loaded, in)
       /\ file' = last'.file
  /\ runs' = runs + 1
  /\ UNCHANGED <<dispVars, parseVars>>

WizardNext == AddHost

WizardSpec == WizardInit /\ [][WizardNext]_vars

\* ------------------------------------------------------------------------
\* Inputs of the parse / serialize specification
\* ------------------------------------------------------------------------
SeqsUpTo(S, n) == UNION {[1..k -> S] : k \in 0..n}

\* well-formed records: tokens without whitespace, port in 1..65535
TokIDs == {<<"a">>, KwHost}
TokHostnames == {<<"a", ".", "x">>, <<"7">>}
TokUsers == {<<"u">>}
TokPorts == {1, 22, 65535}
TokKeys == {<<"/", "k">>}

WellFormedRecords ==
  {SSHConfig(i, h, u, p, k) : i \in TokIDs, h \in TokHostnames,
                              u \in TokUsers, p \in TokPorts, k \in TokKeys}

\* blocks of a hand-edited file: complete ones (as written by the tool, with
\* wider separators, without the blank line) and malformed ones (a line
\* missing, a field line indented with blanks, a port that is no number),
\* and stray comment lines
FieldNames == {"Hostname", "User", "Port", "IdentityFile"}
CompleteKinds == {"ok", "wide", "tight"}
Shapes ==
  {[kind |-> k, field |-> "-"] : k \in CompleteKinds \cup {"badPort", "comment"}}
  \cup {[kind |-> "missing", field |-> f] : f \in FieldNames \cup {"Host"}}
  \cup {[kind |-> "blanks", field |-> f] : f \in FieldNames}

HandRecords ==
  {SSHConfig(<<"a">>, <<"a", ".", "x">>, <<"u">>, 22, <<"/", "k">>),
   SSHConfig(KwHost, <<"7">>, <<"u">>, 1, <<"/", "k">>)}

HandBlocks == {[rec |-> r, shape |-> sh] : r \in HandRecords, sh \in Shapes}

HandLine(b, f, kw, val) ==
  IF b.shape.kind = "missing" /\ b.shape.field = f THEN <<>>
  ELSE (IF f = "Host" THEN <<>>
        ELSE IF b.shape.kind = "blanks" /\ b.shape.field = f
             THEN <<" ", " ", " ", " ">> ELSE <<"\t">>)
       \o kw
       \o (IF b.shape.kind = "wide" THEN <<" ", " ", " ">> ELSE <<" ">>)
       \o val \o <<"\n">>

HandBlock(b) ==
  IF b.shape.kind = "comment" THEN <<"#", " ", "c", "\n">>
  ELSE HandLine(b, "Host", KwHost, b.rec.ID)
       \o HandLine(b, "Hostname", KwHostname, b.rec.hostname)
       \o HandLine(b, "User", KwUser, b.rec.user)
       \o HandLine(b, "Port", KwPort,
                   IF b.shape.kind = "badPort" THEN <<"2", "a">>
                   ELSE IntStr(b.rec.port))
       \o HandLine(b, "IdentityFile", KwIdentityFile, b.rec.key_file)
       \o (IF b.shape.kind = "tight" THEN <<>> ELSE <<"\n">>)

IsComplete(b) == b.shape.kind \in CompleteKinds

\* the records of the complete blocks, in file order
CompleteRecords(bs) ==
  LET good == SelectSeq(bs, IsComplete)
  IN [k \in 1..Len(good) |-> good[k].rec]

ParseInit ==
  /\ file = <<>>
  /\ state = "Running"
  /\ cause = "none"
  /\ event = "none"
  /\ text = <<>>
  /\ branch = "none"
  /\ invoked = "none"
  /\ unknown = 0
  /\ iter = 0
  /\ last = NoRun
  /\ runs = 0
  /\ \/ data \in SeqsUpTo(WellFormedRecords, MaxLen) /\ blocks = <<>>
     \/ data = <<>> /\ blocks \in SeqsUpTo(HandBlocks, MaxLen) \ {<<>>}
  /\ result = [raised |-> "none", value |-> <<>>]
  /\ phase = "input"

\* dataclass_to_file(CONFIG_FILE, data)
Serialize ==
  /\ phase = "input"
  /\ blocks = <<>>
  /\ file' = dataclass_to_file(data)
  /\ phase' = "written"
  /\ UNCHANGED <<data, blocks, result, dispVars, wizVars>>

\* the file is edited by hand
HandEdit ==
  /\ phase = "input"
  /\ blocks # <<>>
  /\ file' = Concat([k \in 1..Len(blocks) |-> HandBlock(blocks[k])])
  /\ phase' = "written"
  /\ UNCHANGED <<data, blocks, result, dispVars, wizVars>>

\* file_to_dataclass(CONFIG_FILE)
Parse ==
  /\ phase = "written"
  /\ result' = file_to_dataclass(file)
  /\ phase' = "parsed"
  /\ UNCHANGED <<file, data, blocks, dispVars, wizVars>>

ParseNext == Serialize \/ HandEdit \/ Parse

ParseSpec == ParseInit /\ [][ParseNext]_vars

\* ------------------------------------------------------------------------
\* Properties
\* ------------------------------------------------------------------------
\* the records stored in a config file
Stored(f) == file_to_dataclass(f).value

RemoveAt(q, k) == SubSeq(q, 1, k - 1) \o SubSeq(q, k + 1, Len(q))

\* C1: writing a sequence of well-formed records and reading the file back
\* returns exactly the same records in the same order, port as an integer.
C1_RoundTrip ==
  (phase = "parsed" /\ blocks = <<>>) =>
     (result.raised = "none" /\ result.value = data)

C1_Witness ==
  /\ phase = "parsed"
  /\ Len(data) = 2
  /\ data[1] # data[2]
  /\ data[1].ID = KwHost
  /\ data[2].port = 65535
  /\ result.value = data

\* C2: when the new record's hostname is that of a stored record, a confirmed
\* overwrite leaves the old sequence with exactly that one record removed and
\* the new record appended, and a declined one leaves the file as it was.
C2_OverwritePolicy ==
  (last.outcome \in {"done", "aborted"} /\ last.asked) =>
     IF last.outcome = "done"
     THEN \E k \in 1..Len(Stored(last.before)) :
            /\ Stored(last.before)[k].hostname = last.hostname
            /\ Stored(file) = RemoveAt(Stored(last.before), k) \o <<last.new>>
     ELSE file = last.before

\* C3: no two stored records have the same id.
C3_IdUnique ==
  \A i, j \in 1..Len(Stored(file)) :
     i # j => Stored(file)[i].ID # Stored(file)[j].ID

\* C4: a line that selects the add command runs the add-host wizard before
\* the next prompt.
C4_AddRunsWizard ==
  (event = "line" /\ branch = "add") => invoked = "add_host"

\* C5: the loop ends only through the exit command or end-of-input at the
\* prompt; after anything else it is still running.
C5_OnlyExitOrEof ==
  state = "Terminated" => cause \in {"exit", "eof"}

\* the eight commands, and prefix matching written out character by character
Commands ==
  {[name |-> "ssh", kw |-> CmdSsh], [name |-> "remove", kw |-> CmdRemove],
   [name |-> "add", kw |-> CmdAdd], [name |-> "list", kw |-> CmdList],
   [name |-> "help", kw |-> CmdHelp], [name |-> "exit", kw |-> CmdExit],
   [name |-> "configure", kw |-> CmdConfigure],
   [name |-> "clear", kw |-> CmdClear]}

HasPrefix(l, p) == \A k \in 1..Len(p) : k <= Len(l) /\ l[k] = p[k]

NoKnownPrefix(l) == \A c \in Commands : ~HasPrefix(l, c.kw)

C7_ParseTotal ==
  (phase = "parsed" /\ blocks # <<>>) =>
     (result.raised = "none" /\ result.value = CompleteRecords(blocks))

C7_Witness ==
  /\ phase = "parsed"
  /\ Len(blocks) = 2
  /\ blocks[1].shape.kind = "badPort"
  /\ blocks[2].shape.kind = "ok"
  /\ result.raised = "none"
  /\ Len(result.value) = 1

\* C8: a wizard run that ends before the final write (a declined
\* confirmation, a step that raises) leaves the config file as it was; the
\* file is written at most once per run, and only by a run that completes.
C8_AbortsKeepFile ==
  [][runs' = runs + 1 =>
       (/\ last'.outcome # "done" => (file' = file /\ last'.writes = 0)
        /\ last'.outcome = "done" => last'.writes = 1)]_vars

C8_Witness ==
  /\ runs = 2
  /\ last.outcome = "FileNotFoundError"
  /\ last.asked
  /\ Len(Stored(file)) = 1
  /\ file = last.before

\* the first whitespace-delimited token of a line (empty when there is none)
TokenStart(l) ==
  CHOOSE i \in 1..(Len(l) + 1) :
     /\ i = Len(l) + 1 \/ l[i] \notin Whitespace
     /\ \A j \in 1..(i - 1) : l[j] \in Whitespace

TokenEnd(l) ==
  CHOOSE i \in TokenStart(l)..(Len(l) + 1) :
     /\ i = Len(l) + 1 \/ l[i] \in Whitespace
     /\ \A j \in TokenStart(l)..(i - 1) : l[j] \notin Whitespace

FirstToken(l) == SubSeq(l, TokenStart(l), TokenEnd(l) - 1)

\* the command a token matches by prefix, "unknown" when it matches none
TokenCommand(tok) ==
  IF \E c \in Commands : HasPrefix(tok, c.kw)
  THEN (CHOOSE c \in Commands : HasPrefix(tok, c.kw)).name
  ELSE "unknown"

\* C9 as stated: the command is selected by the first whitespace-delimited
\* token of the line, so leading whitespace does not change the selection.
C9_ByFirstToken ==
  event = "line" => branch = TokenCommand(FirstToken(text))

\* C9 amended: the command is selected by prefix of the line itself; for a
\* line that does not begin with whitespace that is the command its first
\* token matches, and a line that begins with whitespace (or is empty)
\* selects no command.
C9_ByLinePrefix ==
  event = "line" =>
     branch = IF text = <<>> \/ text[1] \in Whitespace THEN "unknown"
              ELSE TokenCommand(FirstToken(text))

C9_Witness ==
  /\ event = "line"
  /\ text # <<>>
  /\ text[1] \in Whitespace
  /\ TokenCommand(FirstToken(text)) = "ssh"
  /\ branch = "unknown"

HostnamesUnique(q) ==
  \A i, j \in 1..Len(q) : i # j => q[i].hostname # q[j].hostname

\* C10: no two stored records share a hostname after any sequence of wizard
\* runs, and after a completed run the records that were not replaced keep
\* their relative order with the new record last.
C10_HostnameUnique ==
  /\ HostnamesUnique(Stored(file))
  /\ last.outcome = "done" =>
       Stored(file) = Kept(Stored(last.before), last.hostname) \o <<last.new>>
====
